---------------------------- MODULE Spec2Model ----------------------------
(***************************************************************************)
(* A model of image-optimizerjs: lib/basics.js (getFormat) and             *)
(* lib/optimize.js (calculateOptimalDimensions, convertToJpeg,             *)
(* resizePreservingAspectRatio, compressJpeg, optimizeImages).             *)
(*                                                                         *)
(* Path strings are sequences of one-character strings, so that            *)
(* String.prototype.match and String.prototype.replace are modelled by     *)
(* what they do on the characters.  The filesystem is a function from      *)
(* path strings to file records.  Every `await` of the source is a step.   *)
(***************************************************************************)
EXTENDS Integers, Sequences, FiniteSets, TLC

(***************************************************************************)
(* Bounds of the model.                                                    *)
(***************************************************************************)
MaxSegs == 3
MaxDim == 6
MaxItems == 2
MaxBudget == 104
MaxDetail == 2

(***************************************************************************)
(* Strings.                                                                *)
(***************************************************************************)
Dot == << "." >>
DotPng == << ".", "p", "n", "g" >>
DotSvg == << ".", "s", "v", "g" >>
DotJpg == << ".", "j", "p", "g" >>
DotJpeg == << ".", "j", "p", "e", "g" >>
DotGif == << ".", "g", "i", "f" >>
ResizedMarker == << "-", "r", "e", "s", "i", "z", "e", "d" >>
CompressedMarker == << "-", "c", "o", "m", "p", "r", "e", "s", "s", "e", "d" >>
ResizedDot == ResizedMarker \o Dot
CompressedDot == CompressedMarker \o Dot

\* the alternatives of /\.(png|svg|jpg|jpeg|gif)/, in the order the regex tries them
FormatAlternatives == << DotPng, DotSvg, DotJpg, DotJpeg, DotGif >>

\* the value of `format` when String.match finds nothing (undefined)
NoFormat == << >>

\* pat occurs in s at position k
MatchesAt(s, pat, k) ==
    /\ k >= 1
    /\ k + Len(pat) - 1 <= Len(s)
    /\ \A j \in 1..Len(pat) : s[k + j - 1] = pat[j]

\* String.prototype.indexOf, 1-based; 0 when pat does not occur
IndexOf(s, pat) ==
    IF \E k \in 1..Len(s) : MatchesAt(s, pat, k)
    THEN CHOOSE k \in 1..Len(s) :
            /\ MatchesAt(s, pat, k)
            /\ \A m \in 1..(k - 1) : ~MatchesAt(s, pat, m)
    ELSE 0

\* String.prototype.replace(pat, rep) with a string pattern: the FIRST occurrence only
ReplaceFirst(s, pat, rep) ==
    LET k == IndexOf(s, pat)
    IN  IF k = 0 THEN s
        ELSE SubSeq(s, 1, k - 1) \o rep \o SubSeq(s, k + Len(pat), Len(s))

\* some alternative of the regex matches at position k
FormatMatchesAt(s, k) ==
    \E a \in 1..Len(FormatAlternatives) : MatchesAt(s, FormatAlternatives[a], k)

\* getFormat: the leftmost match of the (unanchored) regex, the first alternative
\* that matches there; NoFormat stands for the thrown `is not an image`
getFormat(s) ==
    IF \E k \in 1..Len(s) : FormatMatchesAt(s, k)
    THEN LET k == CHOOSE k \in 1..Len(s) :
                    /\ FormatMatchesAt(s, k)
                    /\ \A m \in 1..(k - 1) : ~FormatMatchesAt(s, m)
             a == CHOOSE a \in 1..Len(FormatAlternatives) :
                    /\ MatchesAt(s, FormatAlternatives[a], k)
                    /\ \A b \in 1..(a - 1) : ~MatchesAt(s, FormatAlternatives[b], k)
         IN  FormatAlternatives[a]
    ELSE NoFormat

\* ['.jpeg', '.jpg'].includes(format)
IsJpegFormat(format) == format \in { DotJpeg, DotJpg }

\* convertToJpeg: const newPath = path.replace(format, '.jpeg')
ConvertNewPath(s) == ReplaceFirst(s, getFormat(s), DotJpeg)

\* resizePreservingAspectRatio: const newPath = path.replace('.', '-resized.')
ResizeNewPath(s) == ReplaceFirst(s, Dot, ResizedDot)

\* compressJpeg: const newPath = path.replace('.', '-compressed.')
CompressNewPath(s) == ReplaceFirst(s, Dot, CompressedDot)

(***************************************************************************)
(* What the naming contract asks for: the file extension is the part of    *)
(* the last path component from its last "." on.                           *)
(***************************************************************************)
ExtStart(s) ==
    LET dots == { k \in 1..Len(s) :
                    /\ s[k] = "."
                    /\ \A m \in k..Len(s) : s[m] # "/" }
    IN  IF dots = {} THEN 0
        ELSE CHOOSE k \in dots : \A m \in dots : m <= k

FileExt(s) == IF ExtStart(s) = 0 THEN << >> ELSE SubSeq(s, ExtStart(s), Len(s))

Stem(s) == IF ExtStart(s) = 0 THEN s ELSE SubSeq(s, 1, ExtStart(s) - 1)

SwapExt(s, ext) == Stem(s) \o ext

InsertBeforeExt(s, marker) == Stem(s) \o marker \o FileExt(s)

(***************************************************************************)
(* Path inputs: every concatenation of at most MaxSegs segments.           *)
(***************************************************************************)
Segments ==
    { << ".", "/" >>, << "a" >>, << "a", ".", "b", "/" >>, << "c" >>,
      DotPng, DotJpeg, DotJpg, DotGif }

RECURSIVE Concats(_)
Concats(n) ==
    IF n = 0 THEN { << >> }
    ELSE LET shorter == Concats(n - 1)
         IN  shorter \cup { s \o g : s \in shorter, g \in Segments }

PathInputs == Concats(MaxSegs) \ { << >> }

(***************************************************************************)
(* Dimensions.  Math.min(1, maxWidth / width, maxHeight / height) is kept  *)
(* as an exact fraction num/den.  For operands up to 21 the IEEE double    *)
(* computation Math.floor(x * k) gives the same integers as the exact      *)
(* fraction (the first deviation is 22 * (15 / 22) = 14.99...), and        *)
(* MaxDim stays below that.                                                *)
(***************************************************************************)
\* ScaleFactor with the larger of the two ratios taken (Math.max for the inner Math.min)
ScaleFactorLargerRatio(dimensions, maxDimensions) ==
    LET width == dimensions.width
        height == dimensions.height
        maxWidth == maxDimensions.maxWidth
        maxHeight == maxDimensions.maxHeight
    IN  IF maxWidth >= width /\ maxHeight >= height
        THEN [ num |-> 1, den |-> 1 ]
        ELSE IF maxWidth * height >= maxHeight * width /\ maxWidth < width
             THEN [ num |-> maxWidth, den |-> width ]
             ELSE IF maxHeight < height
                  THEN [ num |-> maxHeight, den |-> height ]
                  ELSE [ num |-> maxWidth, den |-> width ]

\* const k = Math.min(1, maxWidth / width, maxHeight / height)
ScaleFactor(dimensions, maxDimensions) ==
    LET width == dimensions.width
        height == dimensions.height
        maxWidth == maxDimensions.maxWidth
        maxHeight == maxDimensions.maxHeight
    IN  IF maxWidth >= width /\ maxHeight >= height
        THEN [ num |-> 1, den |-> 1 ]
        ELSE IF maxWidth * height <= maxHeight * width
             THEN [ num |-> maxWidth, den |-> width ]
             ELSE [ num |-> maxHeight, den |-> height ]

\* Math.floor(x * k)
FloorMul(x, k) == (x * k.num) \div k.den

calculateOptimalDimensions(dimensions, maxDimensions) ==
    LET k == ScaleFactor(dimensions, maxDimensions)
    IN  [ width |-> FloorMul(dimensions.width, k),
          height |-> FloorMul(dimensions.height, k) ]

\* if (width <= maxWidth && height <= maxHeight) return path
FitsDimensions(file, maxDimensions) ==
    file.w <= maxDimensions.maxWidth /\ file.h <= maxDimensions.maxHeight

(***************************************************************************)
(* The codec and the filesystem.  A file is a record: its pixel            *)
(* dimensions w x h, the detail of its content, its size in bytes, whether *)
(* the quality it was encoded at by this program (q, 0 when it was not),   *)
(* whether it was written completely (whole), the stage that wrote it (by) *)
(* the input path its content comes from (src) and the index in `paths` of *)
(* the item whose stage wrote it (item, 0 for a file that was there        *)
(* before the program ran).                                                *)
(***************************************************************************)
\* the size of the JPEG encoding of an image at a quality: non-decreasing in
\* the quality (with detail 1 two neighbouring qualities share a size, with
\* detail 2 every quality has its own)
JpegSize(w, h, detail, q) == w * h * ((detail * q + 1) \div 2)

Write(f, p, file) == [ x \in (DOMAIN f) \cup { p } |-> IF x = p THEN file ELSE f[x] ]

Unlink(f, p) == [ x \in (DOMAIN f) \ { p } |-> f[x] ]

Rename(f, old, new) == IF old = new THEN f ELSE Write(Unlink(f, old), new, f[old])

\* what a failed toFile leaves at its destination: nothing, or a truncated file
Partial(data, stage, k) ==
    [ w |-> 0, h |-> 0, detail |-> 0, size |-> 0, q |-> 0, whole |-> FALSE,
      by |-> stage, src |-> data.src, item |-> k ]

MinQuality == 1
MaxQuality == 100

Stages == { "convert", "resize", "compress", "rename" }

NoPath == << >>
NoData == [ w |-> 0, h |-> 0, detail |-> 0, size |-> 0, q |-> 0, whole |-> FALSE,
            by |-> "none", src |-> NoPath, item |-> 0 ]
NoDimensions == [ width |-> 0, height |-> 0 ]
NoMax == [ maxWidth |-> 0, maxHeight |-> 0, maxSize |-> 0 ]
NoNaming == [ step |-> "idle", format |-> << "?" >>, jpeg |-> << "?" >>,
              resized |-> << "?" >>, compressed |-> << "?" >> ]

VARIABLES
    paths,           \* optimizeImages: the argument `paths`
    maxMetadata,     \* optimizeImages: { maxWidth, maxHeight, maxSize }
    autoDelete,      \* the stages' autoDelete argument
    fs,              \* the filesystem: path |-> file
    i,               \* the index in `paths` of the item of the for loop
    pc,              \* the await the program stands at
    newPaths,        \* optimizeImages: the result being built
    jpegPath,        \* optimizeImages: what convertToJpeg returned
    resizedPath,     \* optimizeImages: what resizePreservingAspectRatio returned
    compressedPath,  \* optimizeImages: what compressJpeg returned
    path,            \* the running stage's `path` argument
    newPath,         \* the running stage's newPath
    data,            \* the running stage's data (the file it read)
    newDimensions,   \* resizePreservingAspectRatio: newDimensions
    left,            \* compressJpeg: left
    right,           \* compressJpeg: right
    quality,         \* compressJpeg: quality
    fs0,             \* history: the filesystem when the running stage was called
    done,            \* history: per item, the stages that returned
    encodes,         \* history: the encodes of the running compressJpeg
    accepted,        \* history: qualities measured < maxSize
    rejected,        \* history: qualities measured >= maxSize
    optimal,         \* the result of calculateOptimalDimensions applied alone
    pin,             \* the naming functions' input path
    naming           \* the naming functions' results

gIn == << paths, maxMetadata, autoDelete >>
gOpt == << jpegPath, resizedPath, compressedPath >>
gSearch == << left, right, quality, encodes, accepted, rejected >>
gPath == << pin, naming >>
progVars == << paths, maxMetadata, autoDelete, fs, i, pc, newPaths, jpegPath,
               resizedPath, compressedPath, path, newPath, data, newDimensions,
               left, right, quality, fs0, done, encodes, accepted, rejected,
               optimal >>
vars == << progVars, pin, naming >>

\* the locals of a stage before it runs
IdleLocals ==
    /\ newPath = NoPath
    /\ data = NoData
    /\ newDimensions = NoDimensions
    /\ left = 0
    /\ right = 0
    /\ quality = 0
    /\ encodes = 0
    /\ accepted = {}
    /\ rejected = {}

IdleProgram ==
    /\ paths = << >>
    /\ maxMetadata = NoMax
    /\ autoDelete = FALSE
    /\ fs = << >>
    /\ i = 0
    /\ pc = "idle"
    /\ newPaths = << >>
    /\ jpegPath = NoPath
    /\ resizedPath = NoPath
    /\ compressedPath = NoPath
    /\ path = NoPath
    /\ fs0 = << >>
    /\ done = << >>
    /\ optimal = NoDimensions
    /\ IdleLocals

(***************************************************************************)
(* The naming functions applied alone.                                     *)
(***************************************************************************)
PathInit ==
    /\ pin \in PathInputs
    /\ naming = [ NoNaming EXCEPT !.step = "getFormat" ]
    /\ IdleProgram

\* getFormat(path) throws
NameNotAnImage ==
    /\ naming.step = "getFormat"
    /\ getFormat(pin) = NoFormat
    /\ naming' = [ naming EXCEPT !.step = "thrown" ]
    /\ UNCHANGED << pin, progVars >>

\* getFormat(path) returns the format
NameGetFormat ==
    /\ naming.step = "getFormat"
    /\ getFormat(pin) # NoFormat
    /\ naming' = [ naming EXCEPT !.step = "convert", !.format = getFormat(pin) ]
    /\ UNCHANGED << pin, progVars >>

\* convertToJpeg's returned path
NameConvert ==
    /\ naming.step = "convert"
    /\ naming' = [ naming EXCEPT !.step = "resize",
                     !.jpeg = IF IsJpegFormat(naming.format) THEN pin
                              ELSE ConvertNewPath(pin) ]
    /\ UNCHANGED << pin, progVars >>

\* resizePreservingAspectRatio's new path
NameResize ==
    /\ naming.step = "resize"
    /\ naming' = [ naming EXCEPT !.step = "compress", !.resized = ResizeNewPath(pin) ]
    /\ UNCHANGED << pin, progVars >>

\* compressJpeg's new path
NameCompress ==
    /\ naming.step = "compress"
    /\ naming' = [ naming EXCEPT !.step = "done", !.compressed = CompressNewPath(pin) ]
    /\ UNCHANGED << pin, progVars >>

PathNext ==
    \/ NameNotAnImage
    \/ NameGetFormat
    \/ NameConvert
    \/ NameResize
    \/ NameCompress

SpecPath == PathInit /\ [][PathNext]_vars

(***************************************************************************)
(* The stages.  A stage that throws leaves the program at pc = "catch"; a  *)
(* stage that returns leaves it at the call of the next stage.             *)
(***************************************************************************)
\* an original file, as it lies on the filesystem before the program runs
Original(p, w, h, detail, size) ==
    [ w |-> w, h |-> h, detail |-> detail, size |-> size, q |-> 0, whole |-> TRUE,
      by |-> "orig", src |-> p, item |-> 0 ]

\* sharp(data).jpeg({ quality, chromaSubsampling: '4:4:4' }): the encoding of data
Encoded(file, q, stage, k) ==
    [ w |-> file.w, h |-> file.h, detail |-> file.detail,
      size |-> JpegSize(file.w, file.h, file.detail, q), q |-> q, whole |-> TRUE,
      by |-> stage, src |-> file.src, item |-> k ]

\* sharp(data).resize(width, height): the encoder's own settings decide the size
Resized(file, dims, q, k) ==
    [ w |-> dims.width, h |-> dims.height, detail |-> file.detail,
      size |-> JpegSize(dims.width, dims.height, file.detail, q), q |-> 0,
      whole |-> TRUE, by |-> "resize", src |-> file.src, item |-> k ]

ResizeQualities == { MinQuality, MaxQuality }

Returned(stage) == done' = [ done EXCEPT ![i] = @ \cup { stage } ]

\* what convertToJpeg(path) returns when it returns
ConvertedPath(p) == IF IsJpegFormat(getFormat(p)) THEN p ELSE ConvertNewPath(p)

(* convertToJpeg ***********************************************************)

\* getFormat(path) throws: the path is not an image
ConvertNotAnImage ==
    /\ pc = "convert"
    /\ getFormat(path) = NoFormat
    /\ pc' = "catch"
    /\ UNCHANGED << gIn, fs, i, newPaths, gOpt, path, newPath, data, newDimensions,
                    gSearch, fs0, done, optimal, gPath >>

\* already jpeg/jpg: return path
ConvertNoop ==
    /\ pc = "convert"
    /\ IsJpegFormat(getFormat(path))
    /\ jpegPath' = path
    /\ pc' = "resize"
    /\ Returned("convert")
    /\ fs0' = fs
    /\ UNCHANGED << gIn, fs, i, newPaths, resizedPath, compressedPath, path, newPath,
                    data, newDimensions, gSearch, optimal, gPath >>

\* ConvertRead with the input unlinked as soon as it has been read
ConvertReadThenUnlink ==
    /\ pc = "convert"
    /\ getFormat(path) # NoFormat
    /\ ~IsJpegFormat(getFormat(path))
    /\ path \in DOMAIN fs
    /\ newPath' = ConvertNewPath(path)
    /\ data' = fs[path]
    /\ fs' = Unlink(fs, path)
    /\ pc' = "convert_write"
    /\ UNCHANGED << gIn, i, newPaths, gOpt, path, newDimensions, gSearch, fs0,
                    done, optimal, gPath >>

\* const newPath = path.replace(format, '.jpeg'); const data = await fs.readFile(path)
ConvertRead ==
    /\ pc = "convert"
    /\ getFormat(path) # NoFormat
    /\ ~IsJpegFormat(getFormat(path))
    /\ path \in DOMAIN fs
    /\ newPath' = ConvertNewPath(path)
    /\ data' = fs[path]
    /\ pc' = "convert_write"
    /\ UNCHANGED << gIn, fs, i, newPaths, gOpt, path, newDimensions, gSearch, fs0,
                    done, optimal, gPath >>

\* fs.readFile(path) rejects: no such file, or an I/O error
ConvertReadFail ==
    /\ pc = "convert"
    /\ getFormat(path) # NoFormat
    /\ ~IsJpegFormat(getFormat(path))
    /\ pc' = "catch"
    /\ UNCHANGED << gIn, fs, i, newPaths, gOpt, path, newPath, data, newDimensions,
                    gSearch, fs0, done, optimal, gPath >>

\* await sharp(data).jpeg({ quality: 100, ... }).toFile(newPath)
ConvertWrite ==
    /\ pc = "convert_write"
    /\ data.whole
    /\ fs' = Write(fs, newPath, Encoded(data, MaxQuality, "convert", i))
    /\ IF autoDelete
       THEN /\ pc' = "convert_unlink"
            /\ UNCHANGED << jpegPath, path, done, fs0 >>
       ELSE /\ jpegPath' = newPath
            /\ path' = newPath
            /\ pc' = "resize"
            /\ Returned("convert")
            /\ fs0' = fs'
    /\ UNCHANGED << gIn, i, newPaths, resizedPath, compressedPath, newPath, data,
                    newDimensions, gSearch, optimal, gPath >>

\* toFile rejects: the data does not decode, or the write fails
ConvertWriteFail ==
    /\ pc = "convert_write"
    /\ \E partial \in BOOLEAN :
          fs' = IF partial THEN Write(fs, newPath, Partial(data, "convert", i)) ELSE fs
    /\ pc' = "catch"
    /\ UNCHANGED << gIn, i, newPaths, gOpt, path, newPath, data, newDimensions,
                    gSearch, fs0, done, optimal, gPath >>

\* if (autoDelete) await fs.unlink(path); return newPath
ConvertUnlink ==
    /\ pc = "convert_unlink"
    /\ path \in DOMAIN fs
    /\ fs' = Unlink(fs, path)
    /\ jpegPath' = newPath
    /\ path' = newPath
    /\ pc' = "resize"
    /\ Returned("convert")
    /\ fs0' = fs'
    /\ UNCHANGED << gIn, i, newPaths, resizedPath, compressedPath, newPath, data,
                    newDimensions, gSearch, optimal, gPath >>

\* fs.unlink(path) rejects
ConvertUnlinkFail ==
    /\ pc = "convert_unlink"
    /\ pc' = "catch"
    /\ UNCHANGED << gIn, fs, i, newPaths, gOpt, path, newPath, data, newDimensions,
                    gSearch, fs0, done, optimal, gPath >>

(* resizePreservingAspectRatio *********************************************)

MaxDimensions == [ maxWidth |-> maxMetadata.maxWidth, maxHeight |-> maxMetadata.maxHeight ]

\* getImageDimensions(path) rejects: no such file, or the file does not decode
ResizeDimensionsFail ==
    /\ pc = "resize"
    /\ pc' = "catch"
    /\ UNCHANGED << gIn, fs, i, newPaths, gOpt, path, newPath, data, newDimensions,
                    gSearch, fs0, done, optimal, gPath >>

\* if (width <= maxWidth && height <= maxHeight) return path
ResizeNoop ==
    /\ pc = "resize"
    /\ path \in DOMAIN fs
    /\ fs[path].whole
    /\ FitsDimensions(fs[path], MaxDimensions)
    /\ resizedPath' = path
    /\ pc' = "compress"
    /\ Returned("resize")
    /\ fs0' = fs
    /\ UNCHANGED << gIn, fs, i, newPaths, jpegPath, compressedPath, path, newPath,
                    data, newDimensions, gSearch, optimal, gPath >>

\* newDimensions, newPath, const data = await fs.readFile(path)
ResizeRead ==
    /\ pc = "resize"
    /\ path \in DOMAIN fs
    /\ fs[path].whole
    /\ ~FitsDimensions(fs[path], MaxDimensions)
    /\ newDimensions' = calculateOptimalDimensions(
                            [ width |-> fs[path].w, height |-> fs[path].h ], MaxDimensions)
    /\ newPath' = ResizeNewPath(path)
    /\ data' = fs[path]
    /\ pc' = "resize_write"
    /\ UNCHANGED << gIn, fs, i, newPaths, gOpt, path, gSearch, fs0, done, optimal,
                    gPath >>

\* await sharp(data).resize(newDimensions.width, newDimensions.height).toFile(newPath);
\* sharp accepts only positive integers as width and height
ResizeWrite ==
    /\ pc = "resize_write"
    /\ newDimensions.width >= 1
    /\ newDimensions.height >= 1
    /\ \E q \in ResizeQualities : fs' = Write(fs, newPath, Resized(data, newDimensions, q, i))
    /\ IF autoDelete
       THEN /\ pc' = "resize_unlink"
            /\ UNCHANGED << resizedPath, path, done, fs0 >>
       ELSE /\ resizedPath' = newPath
            /\ path' = newPath
            /\ pc' = "compress"
            /\ Returned("resize")
            /\ fs0' = fs'
    /\ UNCHANGED << gIn, i, newPaths, jpegPath, compressedPath, newPath, data,
                    newDimensions, gSearch, optimal, gPath >>

\* resize or toFile rejects
ResizeWriteFail ==
    /\ pc = "resize_write"
    /\ \E partial \in BOOLEAN :
          fs' = IF partial /\ newDimensions.width >= 1 /\ newDimensions.height >= 1
                THEN Write(fs, newPath, Partial(data, "resize", i)) ELSE fs
    /\ pc' = "catch"
    /\ UNCHANGED << gIn, i, newPaths, gOpt, path, newPath, data, newDimensions,
                    gSearch, fs0, done, optimal, gPath >>

\* if (autoDelete) await fs.unlink(path); return newPath
ResizeUnlink ==
    /\ pc = "resize_unlink"
    /\ path \in DOMAIN fs
    /\ fs' = Unlink(fs, path)
    /\ resizedPath' = newPath
    /\ path' = newPath
    /\ pc' = "compress"
    /\ Returned("resize")
    /\ fs0' = fs'
    /\ UNCHANGED << gIn, i, newPaths, jpegPath, compressedPath, newPath, data,
                    newDimensions, gSearch, optimal, gPath >>

\* fs.unlink(path) rejects
ResizeUnlinkFail ==
    /\ pc = "resize_unlink"
    /\ pc' = "catch"
    /\ UNCHANGED << gIn, fs, i, newPaths, gOpt, path, newPath, data, newDimensions,
                    gSearch, fs0, done, optimal, gPath >>

(***************************************************************************)
(* calculateOptimalDimensions and resizePreservingAspectRatio on every     *)
(* image and every bound up to MaxDim.                                     *)
(***************************************************************************)
APath == << "a" >> \o DotJpeg

DimInit ==
    /\ paths = << APath >>
    /\ \E mw \in 1..MaxDim, mh \in 1..MaxDim :
          maxMetadata = [ maxWidth |-> mw, maxHeight |-> mh, maxSize |-> 0 ]
    /\ autoDelete \in BOOLEAN
    /\ \E w \in 1..MaxDim, h \in 1..MaxDim :
          fs = Write(<< >>, APath, Original(APath, w, h, 2, 1))
    /\ fs0 = fs
    /\ i = 1
    /\ pc = "calculate"
    /\ newPaths = << >>
    /\ jpegPath = APath
    /\ resizedPath = NoPath
    /\ compressedPath = NoPath
    /\ path = APath
    /\ done = << {} >>
    /\ optimal = NoDimensions
    /\ IdleLocals
    /\ pin = NoPath
    /\ naming = NoNaming

\* calculateOptimalDimensions(dimensions, maxDimensions), called on its own
Calculate ==
    /\ pc = "calculate"
    /\ optimal' = calculateOptimalDimensions(
                      [ width |-> fs[path].w, height |-> fs[path].h ], MaxDimensions)
    /\ pc' = "resize"
    /\ UNCHANGED << gIn, fs, i, newPaths, gOpt, path, newPath, data, newDimensions,
                    gSearch, fs0, done, gPath >>

DimNext ==
    \/ Calculate
    \/ ResizeDimensionsFail
    \/ ResizeNoop
    \/ ResizeRead
    \/ ResizeWrite
    \/ ResizeWriteFail
    \/ ResizeUnlink
    \/ ResizeUnlinkFail

SpecDim == DimInit /\ [][DimNext]_vars

(* compressJpeg ************************************************************)

\* while (right - left > 1)
LoopCondition(l, r) == r - l > 1

\* quality = Math.floor((left + right) / 2)
Midpoint(l, r) == (l + r) \div 2

\* Acceptable with <= for <
AcceptableOrEqual(size, maxSize) == size <= maxSize

\* if (await getImageSize(newPath) < maxSize)
Acceptable(size, maxSize) == size < maxSize

\* left = quality in the then branch
NextLeft(l, q, ok) == IF ok THEN q ELSE l

\* NextRight with the else branch's assignment lost
NextRightUnmoved(r, q, ok) == r

\* right = quality in the else branch
NextRight(r, q, ok) == IF ok THEN r ELSE q

\* fs.readFile(path) or getImageSize(path) rejects: no such file, or an I/O error
CompressReadFail ==
    /\ pc = "compress"
    /\ pc' = "catch"
    /\ UNCHANGED << gIn, fs, i, newPaths, gOpt, path, newPath, data, newDimensions,
                    gSearch, fs0, done, optimal, gPath >>

\* if (await getImageSize(path) <= maxSize) return path
CompressNoop ==
    /\ pc = "compress"
    /\ path \in DOMAIN fs
    /\ fs[path].size <= maxMetadata.maxSize
    /\ compressedPath' = path
    /\ pc' = "rename"
    /\ Returned("compress")
    /\ fs0' = fs
    /\ UNCHANGED << gIn, fs, i, newPaths, jpegPath, resizedPath, path, newPath, data,
                    newDimensions, gSearch, optimal, gPath >>

\* const newPath = path.replace('.', '-compressed.'); let left = 1; let right = 100
CompressBegin ==
    /\ pc = "compress"
    /\ path \in DOMAIN fs
    /\ fs[path].size > maxMetadata.maxSize
    /\ data' = fs[path]
    /\ newPath' = CompressNewPath(path)
    /\ left' = MinQuality
    /\ right' = MaxQuality
    /\ quality' = 0
    /\ encodes' = 0
    /\ accepted' = {}
    /\ rejected' = {}
    /\ pc' = "compress_loop"
    /\ UNCHANGED << gIn, fs, i, newPaths, gOpt, path, newDimensions, fs0, done,
                    optimal, gPath >>

\* one iteration: encode at the midpoint to newPath, measure, move left or right
CompressIterate ==
    /\ pc = "compress_loop"
    /\ LoopCondition(left, right)
    /\ data.whole
    /\ LET q == Midpoint(left, right)
           written == Write(fs, newPath, Encoded(data, q, "compress", i))
           size == written[newPath].size
           ok == Acceptable(size, maxMetadata.maxSize)
       IN  /\ quality' = q
           /\ fs' = written
           /\ left' = NextLeft(left, q, ok)
           /\ right' = NextRight(right, q, ok)
           /\ accepted' = IF size < maxMetadata.maxSize THEN accepted \cup { q }
                          ELSE accepted
           /\ rejected' = IF size < maxMetadata.maxSize THEN rejected
                          ELSE rejected \cup { q }
    /\ encodes' = encodes + 1
    /\ UNCHANGED << gIn, i, pc, newPaths, gOpt, path, newPath, data, newDimensions,
                    fs0, done, optimal, gPath >>

\* toFile rejects inside the loop
CompressIterateFail ==
    /\ pc = "compress_loop"
    /\ LoopCondition(left, right)
    /\ \E partial \in BOOLEAN :
          fs' = IF partial THEN Write(fs, newPath, Partial(data, "compress", i)) ELSE fs
    /\ pc' = "catch"
    /\ UNCHANGED << gIn, i, newPaths, gOpt, path, newPath, data, newDimensions,
                    gSearch, fs0, done, optimal, gPath >>

\* after the loop: await sharpInstance.jpeg({ quality: left, ... }).toFile(newPath)
CompressFinal ==
    /\ pc = "compress_loop"
    /\ ~LoopCondition(left, right)
    /\ data.whole
    /\ fs' = Write(fs, newPath, Encoded(data, left, "compress", i))
    /\ encodes' = encodes + 1
    /\ IF autoDelete
       THEN /\ pc' = "compress_unlink"
            /\ UNCHANGED << compressedPath, done, fs0 >>
       ELSE /\ compressedPath' = newPath
            /\ pc' = "rename"
            /\ Returned("compress")
            /\ fs0' = fs'
    /\ UNCHANGED << gIn, i, newPaths, jpegPath, resizedPath, path, newPath, data,
                    newDimensions, left, right, quality, accepted, rejected, optimal,
                    gPath >>

\* the final toFile rejects
CompressFinalFail ==
    /\ pc = "compress_loop"
    /\ ~LoopCondition(left, right)
    /\ \E partial \in BOOLEAN :
          fs' = IF partial THEN Write(fs, newPath, Partial(data, "compress", i)) ELSE fs
    /\ pc' = "catch"
    /\ UNCHANGED << gIn, i, newPaths, gOpt, path, newPath, data, newDimensions,
                    gSearch, fs0, done, optimal, gPath >>

\* if (autoDelete) await fs.unlink(path); return newPath
CompressUnlink ==
    /\ pc = "compress_unlink"
    /\ path \in DOMAIN fs
    /\ fs' = Unlink(fs, path)
    /\ compressedPath' = newPath
    /\ pc' = "rename"
    /\ Returned("compress")
    /\ fs0' = fs'
    /\ UNCHANGED << gIn, i, newPaths, jpegPath, resizedPath, path, newPath, data,
                    newDimensions, gSearch, optimal, gPath >>

\* fs.unlink(path) rejects
CompressUnlinkFail ==
    /\ pc = "compress_unlink"
    /\ pc' = "catch"
    /\ UNCHANGED << gIn, fs, i, newPaths, gOpt, path, newPath, data, newDimensions,
                    gSearch, fs0, done, optimal, gPath >>

(***************************************************************************)
(* compressJpeg on a 1 x 1 image of every detail in 1..MaxDetail, for      *)
(* every budget up to MaxBudget, the file on disk being just within or     *)
(* just over the budget.                                                   *)
(***************************************************************************)
CompressInit ==
    /\ paths = << APath >>
    /\ \E ms \in 0..MaxBudget :
          maxMetadata = [ maxWidth |-> 1, maxHeight |-> 1, maxSize |-> ms ]
    /\ autoDelete \in BOOLEAN
    /\ \E d \in 1..MaxDetail, over \in 0..1 :
          fs = Write(<< >>, APath, Original(APath, 1, 1, d, maxMetadata.maxSize + over))
    /\ fs0 = fs
    /\ i = 1
    /\ pc = "compress"
    /\ newPaths = << >>
    /\ jpegPath = APath
    /\ resizedPath = APath
    /\ compressedPath = NoPath
    /\ path = APath
    /\ done = << {} >>
    /\ optimal = NoDimensions
    /\ IdleLocals
    /\ pin = NoPath
    /\ naming = NoNaming

CompressNext ==
    \/ CompressReadFail
    \/ CompressNoop
    \/ CompressBegin
    \/ CompressIterate
    \/ CompressIterateFail
    \/ CompressFinal
    \/ CompressFinalFail
    \/ CompressUnlink
    \/ CompressUnlinkFail

SpecCompress == CompressInit /\ [][CompressNext]_vars

(* optimizeImages **********************************************************)

\* the for loop moves to the next path, or the function returns newPaths
NextItem ==
    /\ i' = i + 1
    /\ pc' = IF i + 1 > Len(paths) THEN "returned" ELSE "convert"
    /\ path' = IF i + 1 > Len(paths) THEN NoPath ELSE paths[i + 1]
    /\ jpegPath' = NoPath
    /\ resizedPath' = NoPath
    /\ compressedPath' = NoPath
    /\ newPath' = NoPath
    /\ data' = NoData
    /\ newDimensions' = NoDimensions
    /\ left' = 0
    /\ right' = 0
    /\ quality' = 0
    /\ encodes' = 0
    /\ accepted' = {}
    /\ rejected' = {}
    /\ fs0' = fs'

\* await fs.rename(compressedPath, jpegPath); newPaths.push(jpegPath)
RenameAndPush ==
    /\ pc = "rename"
    /\ compressedPath \in DOMAIN fs
    /\ fs' = Rename(fs, compressedPath, jpegPath)
    /\ newPaths' = Append(newPaths, jpegPath)
    /\ Returned("rename")
    /\ NextItem
    /\ UNCHANGED << gIn, optimal, gPath >>

\* fs.rename rejects
RenameFail ==
    /\ pc = "rename"
    /\ pc' = "catch"
    /\ UNCHANGED << gIn, fs, i, newPaths, gOpt, path, newPath, data, newDimensions,
                    gSearch, fs0, done, optimal, gPath >>

\* Catch with break for continue
CatchBreak ==
    /\ pc = "catch"
    /\ pc' = "returned"
    /\ UNCHANGED << gIn, fs, i, newPaths, gOpt, path, newPath, data, newDimensions,
                    gSearch, fs0, done, optimal, gPath >>

\* Catch with the files the skipped item wrote removed
CatchCleanup ==
    /\ pc = "catch"
    /\ fs' = [ p \in { x \in DOMAIN fs : fs[x].item # i } |-> fs[p] ]
    /\ NextItem
    /\ UNCHANGED << gIn, newPaths, done, optimal, gPath >>

\* catch(e) { continue; }
Catch ==
    /\ pc = "catch"
    /\ fs' = fs
    /\ NextItem
    /\ UNCHANGED << gIn, newPaths, done, optimal, gPath >>

APng == << "a" >> \o DotPng
AResized == << "a" >> \o ResizedMarker \o DotJpeg
JpgsPng == << "c" >> \o DotJpg \o << "s", "/", "e" >> \o DotPng
NotImage == << "n" >>

BatchPaths == { APng, APath, AResized, JpgsPng, NotImage }

RECURSIVE Lists(_)
Lists(n) ==
    IF n = 0 THEN { << >> }
    ELSE LET shorter == Lists(n - 1)
         IN  shorter \cup { Append(l, p) : l \in shorter, p \in BatchPaths }

\* the file at an input path before the batch: a.jpeg is small, the others are
\* 4 x 2 and heavy
OriginalAt(p) == IF p = APath THEN Original(p, 1, 1, 2, 10) ELSE Original(p, 4, 2, 2, 500)

BatchMax ==
    { [ maxWidth |-> mw, maxHeight |-> mw, maxSize |-> ms ] : mw \in { 2, 8 }, ms \in { 40, 1000 } }

Init ==
    /\ paths \in Lists(MaxItems)
    /\ maxMetadata \in BatchMax
    /\ autoDelete = TRUE
    /\ fs = [ p \in { paths[k] : k \in 1..Len(paths) } |-> OriginalAt(p) ]
    /\ fs0 = fs
    /\ i = 1
    /\ pc = IF paths = << >> THEN "returned" ELSE "convert"
    /\ newPaths = << >>
    /\ jpegPath = NoPath
    /\ resizedPath = NoPath
    /\ compressedPath = NoPath
    /\ path = IF paths = << >> THEN NoPath ELSE paths[1]
    /\ done = [ k \in 1..Len(paths) |-> {} ]
    /\ optimal = NoDimensions
    /\ IdleLocals
    /\ pin = NoPath
    /\ naming = NoNaming

Next ==
    \/ ConvertNotAnImage
    \/ ConvertNoop
    \/ ConvertRead
    \/ ConvertReadFail
    \/ ConvertWrite
    \/ ConvertWriteFail
    \/ ConvertUnlink
    \/ ConvertUnlinkFail
    \/ ResizeDimensionsFail
    \/ ResizeNoop
    \/ ResizeRead
    \/ ResizeWrite
    \/ ResizeWriteFail
    \/ ResizeUnlink
    \/ ResizeUnlinkFail
    \/ CompressReadFail
    \/ CompressNoop
    \/ CompressBegin
    \/ CompressIterate
    \/ CompressIterateFail
    \/ CompressFinal
    \/ CompressFinalFail
    \/ CompressUnlink
    \/ CompressUnlinkFail
    \/ RenameAndPush
    \/ RenameFail
    \/ Catch

Spec == Init /\ [][Next]_vars

(***************************************************************************)
(* The claims.                                                             *)
(***************************************************************************)
ImageExts == { DotPng, DotSvg, DotJpg, DotJpeg, DotGif }

\* the last component of the path has a name before its extension
NamedFile(s) == ExtStart(s) > 1 /\ s[ExtStart(s) - 1] \notin { "/", "." }

\* C5: for a path that getFormat accepts and whose file extension is an image
\* extension, convertToJpeg's new path is the input with that extension swapped
\* to .jpeg, resizePreservingAspectRatio's is the input with -resized inserted
\* right before the extension, and compressJpeg's is the input with -compressed
\* inserted right before the extension.
C5_NamingContract ==
    (naming.step = "done" /\ FileExt(pin) \in ImageExts /\ NamedFile(pin)) =>
        /\ ~IsJpegFormat(FileExt(pin)) => naming.jpeg = SwapExt(pin, DotJpeg)
        /\ naming.resized = InsertBeforeExt(pin, ResizedMarker)
        /\ naming.compressed = InsertBeforeExt(pin, CompressedMarker)

Calculated == pc # "calculate" /\ optimal # NoDimensions

\* C6: whatever the positive width, height, maxWidth and maxHeight,
\* calculateOptimalDimensions returns a width <= maxWidth and a height <= maxHeight,
\* and the image at the path resizePreservingAspectRatio returns (written, or
\* returned unchanged) fits the bounds.
C6_BoundGuarantee ==
    /\ Calculated =>
          /\ optimal.width <= maxMetadata.maxWidth
          /\ optimal.height <= maxMetadata.maxHeight
    /\ pc = "resize_write" =>
          /\ newDimensions.width <= maxMetadata.maxWidth
          /\ newDimensions.height <= maxMetadata.maxHeight
    /\ pc = "compress" =>
          /\ resizedPath \in DOMAIN fs
          /\ fs[resizedPath].w <= maxMetadata.maxWidth
          /\ fs[resizedPath].h <= maxMetadata.maxHeight

\* a resized image was written and returned, and it touches a bound while the
\* original exceeded both
C6_Witness ==
    /\ pc = "compress"
    /\ resizedPath = ResizeNewPath(APath)
    /\ fs[resizedPath].by = "resize"
    /\ data.w > maxMetadata.maxWidth
    /\ data.h > maxMetadata.maxHeight
    /\ fs[resizedPath].w = maxMetadata.maxWidth
    /\ fs[resizedPath].h < maxMetadata.maxHeight
    /\ fs[resizedPath].h >= 1

\* C7: whatever the positive width, height, maxWidth and maxHeight,
\* calculateOptimalDimensions returns a width >= 1 and a height >= 1.
C7_PositiveDimensions ==
    Calculated => optimal.width >= 1 /\ optimal.height >= 1

\* the binary search of compressJpeg ran (or is running) on `data`
Searching == pc \in { "compress_loop", "compress_unlink" } \/ (pc = "rename" /\ data # NoData)

\* compressJpeg returned the path of the file its search wrote
SearchReturned == pc = "rename" /\ data # NoData

SizeAt(q) == JpegSize(data.w, data.h, data.detail, q)

Qualities == MinQuality..MaxQuality

Reachable == \E q \in Qualities : SizeAt(q) < maxMetadata.maxSize

\* C1: when some quality in [1,100] encodes to a size < maxSize, the file at the
\* returned path has size < maxSize and no higher quality in [1,100] encodes to a
\* size < maxSize.
C1_Maximality ==
    (SearchReturned /\ Reachable) =>
        /\ compressedPath \in DOMAIN fs
        /\ fs[compressedPath].size < maxMetadata.maxSize
        /\ \A q \in Qualities :
              q > fs[compressedPath].q => SizeAt(q) >= maxMetadata.maxSize

RECURSIVE Halvings(_)
Halvings(gap) == IF gap <= 1 THEN 0 ELSE 1 + Halvings((gap + 1) \div 2)

\* the encodes a search can make: one per halving of [1,100], and the final one
EncodeBound == Halvings(MaxQuality - MinQuality) + 1

C9_Bracket ==
    Searching =>
        /\ MinQuality <= left
        /\ left < right
        /\ right <= MaxQuality
        /\ \/ left = MinQuality /\ MinQuality \notin (accepted \cup rejected)
           \/ left \in accepted
        /\ \/ right = MaxQuality /\ MaxQuality \notin (accepted \cup rejected)
           \/ right \in rejected

\* the step part of C9: an iteration tries a quality strictly between left and
\* right, and narrows right - left
C9_Narrows ==
    (pc = "compress_loop" /\ encodes' = encodes + 1 /\ LoopCondition(left, right)) =>
        /\ left < quality'
        /\ quality' < right
        /\ right' - left' < right - left

\* C9: at every loop head and after the loop, 1 <= left < right <= 100, left is
\* the initial 1 or a quality measured < maxSize, right is the initial 100 or a
\* quality measured >= maxSize; every tried quality lies strictly between left and
\* right, and right - left strictly decreases in every iteration.
C9_SearchInvariant == []C9_Bracket /\ [][C9_Narrows]_vars

C9_Witness ==
    /\ pc = "compress_loop"
    /\ left \in accepted
    /\ right \in rejected
    /\ right - left = 1
    /\ left > MinQuality
    /\ right < MaxQuality

\* the paths of the items up to the k-th whose four steps all returned, in order
RECURSIVE Successes(_)
Successes(k) ==
    IF k = 0 THEN << >>
    ELSE IF done[k] = Stages
         THEN Append(Successes(k - 1), ConvertedPath(paths[k]))
         ELSE Successes(k - 1)

\* C2: a stage's throw is always caught and the loop goes on (the batch call
\* never raises); when the call returns every item has been gone through, and
\* at any time the list holds exactly the JPEG paths of the items so far whose
\* convert, resize, compress and rename all succeeded, in input order.
C2_FailureIsolation ==
    /\ newPaths = Successes(i - 1)
    /\ pc = "returned" => i = Len(paths) + 1
    /\ pc = "catch" => ENABLED Catch

\* a two-item batch returned: the first item failed after its convert, the second
\* went through
C2_Witness ==
    /\ pc = "returned"
    /\ Len(paths) = 2
    /\ done[1] = { "convert" }
    /\ done[2] = Stages
    /\ newPaths = << ConvertedPath(paths[2]) >>

Skipped(k) == k \in 1..Len(paths) /\ k < i /\ done[k] # Stages

\* C3: when the batch has returned, no file written by a stage of a skipped item
\* that came before the failing stage is on the filesystem.
C3_NoPartialOutput ==
    pc = "returned" =>
        \A k \in 1..Len(paths) :
            Skipped(k) => \A p \in DOMAIN fs : fs[p].item = k => fs[p].by \notin done[k]

\* C3, amended: the catch of a failed item removes nothing and adds nothing to
\* the result; the loop goes on to the next item with every file as the failure
\* left it.
C3_SkipWithoutCleanup ==
    [][pc = "catch" =>
          /\ fs' = fs
          /\ newPaths' = newPaths
          /\ i' = i + 1
          /\ pc' \in { "convert", "returned" }]_vars

\* an item was skipped after its convert, and the .jpeg its convert wrote is
\* still there
C3_Witness ==
    \E k \in 1..Len(paths) :
        /\ Skipped(k)
        /\ done[k] = { "convert" }
        /\ ConvertedPath(paths[k]) \in DOMAIN fs
        /\ fs[ConvertedPath(paths[k])].item = k
        /\ fs[ConvertedPath(paths[k])].by = "convert"

\* the JPEG path the contract gives an input path
ExpectedJpegPath(p) == IF IsJpegFormat(FileExt(p)) THEN p ELSE SwapExt(p, DotJpeg)

\* the place in newPaths of the k-th item, when it succeeded
Rank(k) == Cardinality({ j \in 1..k : done[j] = Stages })

\* C4: when the batch has returned, for every item whose stages all succeeded the
\* path in the result is the input path with its extension replaced by .jpeg (the
\* input path itself for .jpg/.jpeg), a complete file with the item's content is
\* at that path, no file is left at the original non-JPEG path, and no file the
\* item's stages wrote is left anywhere else.
C4_EndState ==
    pc = "returned" =>
        \A k \in 1..Len(paths) :
            done[k] = Stages =>
                LET rp == ExpectedJpegPath(paths[k])
                IN  /\ newPaths[Rank(k)] = rp
                    /\ rp \in DOMAIN fs
                    /\ fs[rp].whole
                    /\ fs[rp].src = paths[k]
                    /\ rp # paths[k] => paths[k] \notin DOMAIN fs
                    /\ \A p \in DOMAIN fs : fs[p].item = k => p = rp

ConvertPcs == { "convert", "convert_write", "convert_unlink" }
ResizePcs == { "resize", "resize_write", "resize_unlink" }
CompressPcs == { "compress", "compress_loop", "compress_unlink" }
UnlinkPcs == { "convert_unlink", "resize_unlink", "compress_unlink" }

InStage == pc \in ConvertPcs \cup ResizePcs \cup CompressPcs

StageName ==
    IF pc \in ConvertPcs THEN "convert"
    ELSE IF pc \in ResizePcs THEN "resize" ELSE "compress"

\* the running stage's own output lies complete at newPath
OutputComplete ==
    /\ newPath \in DOMAIN fs
    /\ fs[newPath].whole
    /\ fs[newPath].by = StageName
    /\ fs[newPath].item = i
    /\ StageName = "compress" => fs[newPath].q = left /\ ~LoopCondition(left, right)

\* a stage's step that removes the stage's input file comes after its output
UnlinkAfterOutput ==
    (InStage /\ path \in DOMAIN fs /\ path \notin DOMAIN fs') => OutputComplete

FailsBeforeOutput == InStage /\ pc \notin UnlinkPcs /\ pc' = "catch"

\* a stage that fails before its output is complete leaves its input as it was
FailureKeepsInput ==
    (FailsBeforeOutput /\ path \in DOMAIN fs0) =>
        path \in DOMAIN fs' /\ fs'[path] = fs0[path]

\* a stage that fails before its output is complete has written no complete file
FailureWritesNothing ==
    FailsBeforeOutput =>
        \A p \in DOMAIN fs' : fs'[p].whole => p \in DOMAIN fs0 /\ fs0[p] = fs'[p]

\* a stage that returns from its first test returns its input path and has
\* touched no file
NoopReturnsInput ==
    /\ (pc = "convert" /\ pc' = "resize") => jpegPath' = path /\ fs' = fs0
    /\ (pc = "resize" /\ pc' = "compress") => resizedPath' = path /\ fs' = fs0
    /\ (pc = "compress" /\ pc' = "rename") => compressedPath' = path /\ fs' = fs0

\* C10: with autoDelete set a stage unlinks its input only after its own output
\* is completely written; a stage that fails before that, or takes its no-op
\* branch, leaves the input in place and writes no file, and the no-op branch
\* returns the input path.
C10_AutoDeleteNoWrite ==
    [][UnlinkAfterOutput /\ FailureKeepsInput /\ FailureWritesNothing
       /\ NoopReturnsInput]_vars

\* C10, amended: with autoDelete set a stage unlinks its input only after its own
\* output is completely written; a stage that fails before that leaves the input
\* in place (files may already lie at its new path); the no-op branch leaves the
\* input in place, writes no file and returns the input path.
C10_AutoDeleteOrdering ==
    [][UnlinkAfterOutput /\ FailureKeepsInput /\ NoopReturnsInput]_vars

\* compressJpeg has written its output and unlinked its input
C10_Witness ==
    /\ pc = "rename"
    /\ autoDelete
    /\ compressedPath = CompressNewPath(path)
    /\ compressedPath \in DOMAIN fs
    /\ fs[compressedPath].whole
    /\ fs[compressedPath].by = "compress"
    /\ data.by # "none"
    /\ path \notin DOMAIN fs

=============================================================================
